---------------------------- MODULE Spec2Model ----------------------------
(***************************************************************************)
(* One invocation of main(event, context) of the trading bot               *)
(* (src/tradingBot.py, and the stub src/tradingBot-refactor.py): the       *)
(* market-hours check, then trade(): history load, position fetch,         *)
(* scoring, buy list, reconciliation of the held portfolio against the     *)
(* buy list (get_sell_data, diff_stocks, get_buy_data), order submission   *)
(* and the position log.                                                   *)
(*                                                                         *)
(* Data model.  A ticker symbol is a number in 1..NumSymbols.  The         *)
(* portfolio frame df_pf and the buy list df_buy hold one row per symbol   *)
(* and are modelled as functions symbol -> qty over the symbols they       *)
(* hold.  An order frame is a sequence of rows [symbol, qty]; a Python     *)
(* None is kept apart from an empty frame.  The "close" column is carried  *)
(* through the source but never read when an order is sized, so only the   *)
(* existence of a close row on the as-of date is modelled (priced).  Row   *)
(* order, where the source leaves it to its inputs, is taken ascending by  *)
(* symbol.  A NaN cell is the empty set and a value v the set {v}.         *)
(*                                                                         *)
(* The frame operations follow the pandas 1.x semantics the source is      *)
(* written against (DataFrame.drop with a positional axis, line 308).      *)
(*                                                                         *)
(* trade() rebinds df_sell (line 472) and df_buy (line 492); the model     *)
(* keeps the rebound values in df_sell_final and df_buy_new, the names     *)
(* the callee gives them, so the inputs stay visible.                      *)
(***************************************************************************)
EXTENDS Integers, Sequences, FiniteSets

\* Number of ticker symbols in the modelled market.
NumSymbols == 3

\* Largest share count of a position or of a buy-list row.
MaxQty == 2

\* Largest number of observations a symbol has in the rolling window, and
\* largest `minimum` a Momentum is built with.
MaxObs == 2

\* Largest momentum score.
MaxScore == 2

\* Largest portfolio_size a Momentum is built with.
MaxPortfolioSize == 2

Symbols == 1..NumSymbols

Qtys == 1..MaxQty

\* All frames of one row per symbol: symbol -> qty, over any set of symbols.
Positions == UNION {[S -> Qtys] : S \in SUBSET Symbols}

VARIABLES
    script,         \* which source file's main runs
    DEBUG,          \* the global run-mode flag (tradingBot.py line 16)
    is_open,        \* what the market-hours endpoint answers for today
    pc,             \* position in main / trade
    checked,        \* check_open(): "no" (not called), "returned", "raised"
    priced,         \* symbols with a close row in df on current_data_date
    df_pf,          \* current portfolio: symbol -> qty held
    df_buy,         \* buy list of get_buy_list: symbol -> target qty
    df_sell,        \* result of get_sell_data
    df_sell_final,  \* result of diff_stocks
    df_buy_new,     \* result of get_buy_data
    i,              \* index of the order loop
    submitted,      \* broker submit_order calls, in call order
    logged,         \* number of position-log writes
    trace,          \* steps of trade() completed, in order
    status,         \* what main returned
    bl_pc,          \* position in the scoring and selection of one date
    observations,   \* symbol -> closes in the window ending on the date
    minimum,        \* Momentum.minimum (min_periods of the rolling window)
    portfolio_size, \* Momentum.portfolio_size
    momentum,       \* the momentum column on the date: symbol -> cell
    universe        \* get_buy_list's universe, a list of symbols

\* The variables of a run of main.
tradeVars == <<script, DEBUG, is_open, pc, checked, priced, df_pf, df_buy,
               df_sell, df_sell_final, df_buy_new, i, submitted, logged,
               trace, status>>

\* The variables of the scoring and selection of one date.
blVars == <<bl_pc, observations, minimum, portfolio_size, momentum, universe>>

vars == <<tradeVars, blVars>>

-----------------------------------------------------------------------------
(* Frames *)

None == [none |-> TRUE, rows |-> <<>>]

Frame(rows) == [none |-> FALSE, rows |-> rows]

NaN == {}

Val(v) == {v}

ValueOf(cell) == CHOOSE v \in cell : TRUE

Min(S) == CHOOSE x \in S : \A y \in S : x <= y

RECURSIVE Sorted(_)
Sorted(S) == IF S = {} THEN <<>> ELSE <<Min(S)>> \o Sorted(S \ {Min(S)})

\* Variant: fillna(0) in place of fillna(qty).
fillna_zero(cell, other) == IF cell = NaN THEN Val(0) ELSE cell

\* Series.fillna(other): a NaN cell takes the other column's cell.
fillna(cell, other) == IF cell = NaN THEN other ELSE cell

\* Variant: the sign is kept (the np.abs call left out).
np_abs_missing(cell) == cell

\* np.abs on a cell; NaN stays NaN.
np_abs(cell) == {IF v < 0 THEN -v ELSE v : v \in cell}


-----------------------------------------------------------------------------
(* Reconciliation: get_sell_data, diff_stocks, get_buy_data *)

\* Variant: every held symbol is put on the sell list.
sell_list_all(pf, buy) == DOMAIN pf

\* trade(), line 468: symbols of the portfolio that are not in the buy list.
sell_list(pf, buy) == DOMAIN pf \ DOMAIN buy

\* get_sell_data, lines 242-245: the rows of df on the as-of date whose
\* symbol is in the sell list.
df_sell_price(df_priced, sl) == {s \in df_priced : s \in sl}

\* get_sell_data: the price rows of the sell list, left-merged with the
\* portfolio's qty; None when the sell list has no price row on the date.
get_sell_data(df_priced, pf, sl) ==
    IF df_sell_price(df_priced, sl) # {}
    THEN LET syms == Sorted(df_sell_price(df_priced, sl))
         IN  Frame([k \in 1..Len(syms) |->
                     [symbol |-> syms[k],
                      qty |-> IF syms[k] \in DOMAIN pf
                              THEN Val(pf[syms[k]]) ELSE NaN]])
    ELSE None

\* diff_stocks, lines 280-282: inner merge of buy list and portfolio on symbol.
df_stock_diff(pf, buy) == DOMAIN buy \cap DOMAIN pf

\* diff_stocks, lines 287-289: qty_x - qty_y, buy-list qty minus held qty.
share_amt_change(pf, buy, s) == buy[s] - pf[s]

\* Variant: the filter keeps the unchanged symbols (<= for <).
df_stock_diff_sale_le(pf, buy) ==
    {s \in df_stock_diff(pf, buy) : share_amt_change(pf, buy, s) <= 0}

\* diff_stocks, line 296: the common symbols whose qty decreased.
df_stock_diff_sale(pf, buy) ==
    {s \in df_stock_diff(pf, buy) : share_amt_change(pf, buy, s) < 0}

\* The rows of df_stock_diff_sale, in the buy list's (symbol) order; they
\* carry share_amt_change and no qty column.
SaleRows(pf, buy) ==
    LET syms == Sorted(df_stock_diff_sale(pf, buy))
    IN  [k \in 1..Len(syms) |->
          [symbol |-> syms[k], qty |-> NaN,
           share_amt_change |-> Val(share_amt_change(pf, buy, syms[k]))]]

\* diff_stocks, line 302: pd.concat([df_sell, df_stock_diff_sale]); the rows
\* of df_sell have no share_amt_change cell.
ConcatRows(sell, pf, buy) ==
    [k \in 1..Len(sell.rows) |->
       [symbol |-> sell.rows[k].symbol, qty |-> sell.rows[k].qty,
        share_amt_change |-> NaN]]
    \o SaleRows(pf, buy)

\* diff_stocks, lines 305-315 (and 319-324): share_amt_change is filled from
\* qty where it is NaN, qty is dropped, the absolute value is taken and the
\* column is renamed qty.
FinalRow(row) ==
    [symbol |-> row.symbol,
     qty |-> np_abs(fillna(row.share_amt_change, row.qty))]

\* diff_stocks, line 328: df_buy[["symbol", "qty", "close"]].
df_stocks_held_curr(buy) ==
    LET syms == Sorted(DOMAIN buy)
    IN  [k \in 1..Len(syms) |-> [symbol |-> syms[k], qty |-> Val(buy[syms[k]])]]

diff_stocks(sell, pf, buy) ==
    IF df_stock_diff(pf, buy) # {}
    THEN IF df_stock_diff_sale(pf, buy) # {}
         THEN IF ~sell.none
              THEN LET rows == ConcatRows(sell, pf, buy)
                   IN  Frame([k \in 1..Len(rows) |-> FinalRow(rows[k])])
              ELSE LET rows == SaleRows(pf, buy)
                   IN  Frame([k \in 1..Len(rows) |-> FinalRow(rows[k])])
         ELSE None
    ELSE Frame(df_stocks_held_curr(buy))

\* get_buy_data, lines 345-348: left merge with the portfolio, then
\* fillna(0): the held qty, 0 for a symbol that is not held.
qty_y(pf, s) == IF s \in DOMAIN pf THEN pf[s] ELSE 0

\* get_buy_data, line 349.
qty_new(pf, buy, s) == buy[s] - qty_y(pf, s)

\* Variant: the filter keeps the rows whose qty did not change (>= for >).
IncreasedRows_ge(pf, buy) == {s \in DOMAIN buy : qty_new(pf, buy, s) >= 0}

\* get_buy_data, line 352: only the shares that increased.
IncreasedRows(pf, buy) == {s \in DOMAIN buy : qty_new(pf, buy, s) > 0}

get_buy_data(pf, buy) ==
    IF IncreasedRows(pf, buy) # {}
    THEN LET syms == Sorted(IncreasedRows(pf, buy))
         IN  Frame([k \in 1..Len(syms) |->
                     [symbol |-> syms[k],
                      qty |-> Val(qty_new(pf, buy, syms[k]))]])
    ELSE None

-----------------------------------------------------------------------------
(* main and trade *)

\* Variant: the buy block is placed before the sell block.
TradeSteps_buy_first ==
    <<"get_hist_data", "list_positions", "get_account", "prepare_df",
      "get_buy_list", "get_sell_data", "diff_stocks", "get_buy_data",
      "buy_order", "sell_order", "log_positions">>

\* Variant: the positions are fetched after scoring and selection.
TradeSteps_positions_late ==
    <<"get_hist_data", "prepare_df", "get_buy_list", "list_positions",
      "get_account", "get_sell_data", "diff_stocks", "sell_order",
      "get_buy_data", "buy_order", "log_positions">>

\* Variant: the positions are logged before the buy block.
TradeSteps_log_early ==
    <<"get_hist_data", "list_positions", "get_account", "prepare_df",
      "get_buy_list", "get_sell_data", "diff_stocks", "sell_order",
      "get_buy_data", "log_positions", "buy_order">>

\* The statements of trade() in program order (lines 432-514).
TradeSteps ==
    <<"get_hist_data", "list_positions", "get_account", "prepare_df",
      "get_buy_list", "get_sell_data", "diff_stocks", "sell_order",
      "get_buy_data", "buy_order", "log_positions">>

IndexOf(step) == CHOOSE k \in DOMAIN TradeSteps : TradeSteps[k] = step

\* The statement trade() runs after `step`; after the last one it returns.
After(step) ==
    IF IndexOf(step) < Len(TradeSteps)
    THEN TradeSteps[IndexOf(step) + 1]
    ELSE "return"

NotReturned == "<running>"

PyNone == "None"

TradingComplete == "Trading complete."

MarketsClosed == "No trade: markets closed."

\* main's except clauses.  tradingBot.py, lines 533-540: the formatted
\* error is returned.  tradingBot-refactor.py, lines 86-87: `pass`, so the
\* function falls off its end and returns None.
main_except(file, exc) ==
    IF file = "tradingBot-refactor.py" THEN PyNone
    ELSE IF exc = "ValueError" THEN "ValueError: {0}"
    ELSE "Exception: {0}"

\* Variant: the answer of check_open() is not looked at.
main_enters_trade_always(file, debug, open) == TRUE

\* main's branch on the run mode and the market hours.  tradingBot.py,
\* lines 525-532: DEBUG enters trade() without asking for the hours.
\* tradingBot-refactor.py, lines 81-85, has no DEBUG flag.
main_enters_trade(file, debug, open) ==
    IF file = "tradingBot.py" /\ debug THEN TRUE ELSE open

\* What main returns once trade() has returned: tradingBot.py, lines
\* 526-527, only prints under DEBUG; line 530 and refactor line 83 return.
main_after_trade(file, debug) ==
    IF file = "tradingBot.py" /\ debug THEN PyNone ELSE TradingComplete

\* The scoring and selection are not looked into during a run of main:
\* GetBuyList draws any buy list they can produce.
BuyListIdle ==
    /\ bl_pc = "idle"
    /\ observations = <<>>
    /\ minimum = 1
    /\ portfolio_size = 1
    /\ momentum = <<>>
    /\ universe = <<>>

Init ==
    /\ script \in {"tradingBot.py", "tradingBot-refactor.py"}
    /\ DEBUG \in (IF script = "tradingBot.py" THEN BOOLEAN ELSE {FALSE})
    /\ is_open \in BOOLEAN
    /\ pc = "main"
    /\ checked = "no"
    /\ priced = {}
    /\ df_pf = <<>>
    /\ df_buy = <<>>
    /\ df_sell = None
    /\ df_sell_final = None
    /\ df_buy_new = None
    /\ i = 1
    /\ submitted = <<>>
    /\ logged = 0
    /\ trace = <<>>
    /\ status = NotReturned
    /\ BuyListIdle

\* An exception leaves trade() (or check_open) and is caught in main.
Raise(exc) ==
    /\ pc' = "done"
    /\ status' = main_except(script, exc)

\* The current statement of trade() completed; go on with the next one.
Step(step) ==
    /\ trace' = Append(trace, step)
    /\ IF After(step) = "return"
       THEN /\ pc' = "done"
            /\ status' = main_after_trade(script, DEBUG)
       ELSE /\ pc' = After(step)
            /\ UNCHANGED status

\* main, lines 524-532 (refactor 80-85): under DEBUG trade() is entered at
\* once; otherwise check_open() is called, which may raise.
Main ==
    /\ pc = "main"
    /\ \/ /\ script = "tradingBot.py" /\ DEBUG
          /\ pc' = TradeSteps[1]
          /\ UNCHANGED status
       \/ /\ ~(script = "tradingBot.py" /\ DEBUG)
          /\ pc' = "check_open"
          /\ UNCHANGED status
    /\ UNCHANGED <<blVars, script, DEBUG, is_open, checked, priced, df_pf, df_buy, df_sell,
                   df_sell_final, df_buy_new, i, submitted, logged, trace>>

\* check_open, lines 204-223, and main's branch on its result.
CheckOpen ==
    /\ pc = "check_open"
    /\ \/ /\ Raise("Exception")
          /\ checked' = "raised"
       \/ /\ main_enters_trade(script, DEBUG, is_open)
          /\ checked' = "returned"
          /\ pc' = IF script = "tradingBot.py" THEN TradeSteps[1]
                   ELSE "refactor_trade"
          /\ UNCHANGED status
       \/ /\ ~main_enters_trade(script, DEBUG, is_open)
          /\ checked' = "returned"
          /\ pc' = "done"
          /\ status' = MarketsClosed
    /\ UNCHANGED <<blVars, script, DEBUG, is_open, priced, df_pf, df_buy, df_sell,
                   df_sell_final, df_buy_new, i, submitted, logged, trace>>

\* tradingBot-refactor.py, lines 69-70 and 82-83: trade() is `pass`.
RefactorTrade ==
    /\ pc = "refactor_trade"
    /\ pc' = "done"
    /\ status' = main_after_trade(script, DEBUG)
    /\ UNCHANGED <<blVars, script, DEBUG, is_open, checked, priced, df_pf, df_buy, df_sell,
                   df_sell_final, df_buy_new, i, submitted, logged, trace>>

\* trade, lines 432-435: the history is loaded; current_data_date is its
\* latest date, and `priced` the symbols with a close row on it.
GetHistData ==
    /\ pc = "get_hist_data"
    /\ \/ /\ Raise("Exception")
          /\ UNCHANGED <<priced, trace>>
       \/ /\ \E P \in SUBSET Symbols : priced' = P
          /\ Step("get_hist_data")
    /\ UNCHANGED <<blVars, script, DEBUG, is_open, checked, df_pf, df_buy, df_sell,
                   df_sell_final, df_buy_new, i, submitted, logged>>

\* trade, lines 438-450: the broker's positions become df_pf.
ListPositions ==
    /\ pc = "list_positions"
    /\ \/ /\ Raise("Exception")
          /\ UNCHANGED <<df_pf, trace>>
       \/ /\ \E pf \in Positions : df_pf' = pf
          /\ Step("list_positions")
    /\ UNCHANGED <<blVars, script, DEBUG, is_open, checked, priced, df_buy, df_sell,
                   df_sell_final, df_buy_new, i, submitted, logged>>

\* trade, lines 455-456: the account's equity.
GetAccount ==
    /\ pc = "get_account"
    /\ \/ /\ Raise("Exception")
          /\ UNCHANGED trace
       \/ Step("get_account")
    /\ UNCHANGED <<blVars, script, DEBUG, is_open, checked, priced, df_pf, df_buy, df_sell,
                   df_sell_final, df_buy_new, i, submitted, logged>>

\* trade, lines 459-462: the momentum column is added to df.
PrepareDf ==
    /\ pc = "prepare_df"
    /\ \/ /\ Raise("Exception")
          /\ UNCHANGED trace
       \/ Step("prepare_df")
    /\ UNCHANGED <<blVars, script, DEBUG, is_open, checked, priced, df_pf, df_buy, df_sell,
                   df_sell_final, df_buy_new, i, submitted, logged>>

\* trade, line 465: the buy list.  Its rows are rows of df on the as-of
\* date (lines 143-146) with a non-zero allocated qty (line 153); the
\* optimiser and the allocation may raise, and do on an empty history.
GetBuyList ==
    /\ pc = "get_buy_list"
    /\ \/ /\ \E exc \in {"ValueError", "Exception"} : Raise(exc)
          /\ UNCHANGED <<df_buy, trace>>
       \/ /\ priced # {}
          /\ \E buy \in Positions :
                /\ DOMAIN buy \subseteq priced
                /\ df_buy' = buy
          /\ Step("get_buy_list")
    /\ UNCHANGED <<blVars, script, DEBUG, is_open, checked, priced, df_pf, df_sell,
                   df_sell_final, df_buy_new, i, submitted, logged>>

\* trade, lines 468-469.
GetSellData ==
    /\ pc = "get_sell_data"
    /\ df_sell' = get_sell_data(priced, df_pf, sell_list(df_pf, df_buy))
    /\ Step("get_sell_data")
    /\ UNCHANGED <<blVars, script, DEBUG, is_open, checked, priced, df_pf, df_buy,
                   df_sell_final, df_buy_new, i, submitted, logged>>

\* trade, line 472.
DiffStocks ==
    /\ pc = "diff_stocks"
    /\ df_sell_final' = diff_stocks(df_sell, df_pf, df_buy)
    /\ Step("diff_stocks")
    /\ UNCHANGED <<blVars, script, DEBUG, is_open, checked, priced, df_pf, df_buy, df_sell,
                   df_buy_new, i, submitted, logged>>

\* One pass through an order block of trade (lines 473-489 for "sell",
\* 493-509 for "buy"): nothing when the frame is None; under DEBUG the
\* frame is printed; otherwise the next order of the frame is submitted.
\* The loop is inside the try: a submission that raises ends the loop
\* (`except Exception: pass`).
OrderBlock(step, side, frame) ==
    /\ pc = step
    /\ IF frame.none \/ DEBUG \/ i > Len(frame.rows)
       THEN /\ Step(step)
            /\ i' = 1
            /\ UNCHANGED submitted
       ELSE \E ok \in BOOLEAN :
              /\ submitted' = Append(submitted,
                                [symbol |-> frame.rows[i].symbol,
                                 qty |-> frame.rows[i].qty,
                                 side |-> side, ok |-> ok])
              /\ IF ok
                 THEN /\ i' = i + 1
                      /\ UNCHANGED <<pc, status, trace>>
                 ELSE /\ i' = 1
                      /\ Step(step)
    /\ UNCHANGED <<blVars, script, DEBUG, is_open, checked, priced, df_pf, df_buy, df_sell,
                   df_sell_final, df_buy_new, logged>>

SellOrder == OrderBlock("sell_order", "sell", df_sell_final)

\* trade, line 492.
GetBuyData ==
    /\ pc = "get_buy_data"
    /\ df_buy_new' = get_buy_data(df_pf, df_buy)
    /\ Step("get_buy_data")
    /\ UNCHANGED <<blVars, script, DEBUG, is_open, checked, priced, df_pf, df_buy, df_sell,
                   df_sell_final, i, submitted, logged>>

BuyOrder == OrderBlock("buy_order", "buy", df_buy_new)

\* trade, lines 512-514, and log_positions: nothing under DEBUG; otherwise
\* the positions are fetched again and one load job appends them to the
\* log; either call may raise.
LogPositions ==
    /\ pc = "log_positions"
    /\ \/ /\ DEBUG
          /\ Step("log_positions")
          /\ UNCHANGED logged
       \/ /\ ~DEBUG
          /\ logged' = logged + 1
          /\ Step("log_positions")
       \/ /\ ~DEBUG
          /\ Raise("Exception")
          /\ UNCHANGED <<logged, trace>>
    /\ UNCHANGED <<blVars, script, DEBUG, is_open, checked, priced, df_pf, df_buy, df_sell,
                   df_sell_final, df_buy_new, i, submitted>>

Next ==
    \/ Main
    \/ CheckOpen
    \/ RefactorTrade
    \/ GetHistData
    \/ ListPositions
    \/ GetAccount
    \/ PrepareDf
    \/ GetBuyList
    \/ GetSellData
    \/ DiffStocks
    \/ SellOrder
    \/ GetBuyData
    \/ BuyOrder
    \/ LogPositions

Spec == Init /\ [][Next]_vars

-----------------------------------------------------------------------------
(* Momentum.prepare_df and the universe of Momentum.get_buy_list, for the  *)
(* rows of one as-of date                                                  *)

Scores == 1..MaxScore

\* prepare_df, lines 166-171: rolling(window, min_periods=minimum).apply:
\* a row with fewer than `minimum` closes in its window gets NaN, any
\* other row the score of its window.
ScoredColumns(obs, min_periods) ==
    {m \in [DOMAIN obs -> {NaN} \cup {Val(v) : v \in Scores}] :
        \A s \in DOMAIN obs : (m[s] = NaN) <=> (obs[s] < min_periods)}

\* All orders of the rows of a frame.
RowOrders(S) ==
    {f \in [1..Cardinality(S) -> S] :
        \A j, k \in 1..Cardinality(S) : f[j] = f[k] => j = k}

\* get_buy_list, line 100: sort_values(by="momentum", ascending=False):
\* scores descending, NaN rows last; rows with equal keys in any order.
SortedByMomentum(m) ==
    {f \in RowOrders(DOMAIN m) :
        \A j, k \in DOMAIN f :
            j < k =>
                \/ m[f[k]] = NaN
                \/ /\ m[f[j]] # NaN
                   /\ ValueOf(m[f[j]]) >= ValueOf(m[f[k]])}

\* get_buy_list, lines 100-102: DataFrame.head(n), the first n rows.
head(rows, n) == SubSeq(rows, 1, IF n < Len(rows) THEN n ELSE Len(rows))

\* The rows of one as-of date, each with its number of closes in the
\* window, and a Momentum(window, minimum, portfolio_size) (lines 62-67).
InitBuyList ==
    /\ script = "tradingBot.py"
    /\ DEBUG = FALSE
    /\ is_open = TRUE
    /\ pc = "get_buy_list"
    /\ checked = "returned"
    /\ priced = {}
    /\ df_pf = <<>>
    /\ df_buy = <<>>
    /\ df_sell = None
    /\ df_sell_final = None
    /\ df_buy_new = None
    /\ i = 1
    /\ submitted = <<>>
    /\ logged = 0
    /\ trace = <<>>
    /\ status = NotReturned
    /\ bl_pc = "prepare_df"
    /\ observations \in UNION {[S -> 1..MaxObs] : S \in SUBSET Symbols}
    /\ minimum \in 1..MaxObs
    /\ portfolio_size \in 1..MaxPortfolioSize
    /\ momentum = <<>>
    /\ universe = <<>>

\* Momentum.prepare_df, lines 166-173.
ScoreRows ==
    /\ bl_pc = "prepare_df"
    /\ momentum' \in ScoredColumns(observations, minimum)
    /\ bl_pc' = "get_buy_list"
    /\ UNCHANGED <<tradeVars, observations, minimum, portfolio_size, universe>>

\* Momentum.get_buy_list, lines 99-105: the rows of the date, sorted by
\* momentum, cut to portfolio_size; their symbols are the universe.
SelectUniverse ==
    /\ bl_pc = "get_buy_list"
    /\ \E rows \in SortedByMomentum(momentum) :
          universe' = head(rows, portfolio_size)
    /\ bl_pc' = "universe"
    /\ UNCHANGED <<tradeVars, observations, minimum, portfolio_size, momentum>>

NextBuyList ==
    \/ ScoreRows
    \/ SelectUniverse

SpecBuyList == InitBuyList /\ [][NextBuyList]_vars

-----------------------------------------------------------------------------
(* Properties *)

Completed(step) == \E k \in DOMAIN trace : trace[k] = step

\* The orders of a frame as (symbol, qty cell) pairs; none for None.
Orders(frame) == {<<frame.rows[k].symbol, frame.rows[k].qty>> : k \in DOMAIN frame.rows}

OrderSymbols(frame) == {frame.rows[k].symbol : k \in DOMAIN frame.rows}

\* The quantity a frame orders of symbol s (0 when it has no row for s).
OrderQty(frame, s) ==
    IF s \in OrderSymbols(frame)
    THEN ValueOf((CHOOSE o \in Orders(frame) : o[1] = s)[2])
    ELSE 0

HeldQty(s) == IF s \in DOMAIN df_pf THEN df_pf[s] ELSE 0

TargetQty(s) == IF s \in DOMAIN df_buy THEN df_buy[s] ELSE 0

\* Both order sets of the cycle have been computed.
Reconciled == Completed("diff_stocks") /\ Completed("get_buy_data")

\* Held symbols that left the buy list.
Exited == DOMAIN df_pf \ DOMAIN df_buy

\* C1: the SELL order set (get_sell_data, then diff_stocks) and the BUY
\* order set (get_buy_data) of one cycle share no symbol.
C1_SellBuyDisjoint ==
    Reconciled =>
        OrderSymbols(df_sell_final) \cap OrderSymbols(df_buy_new) = {}

\* C2: round trip.  When every exited symbol has a price on the as-of date,
\* held - sold + bought is the target qty for every symbol of the buy list
\* and 0 for every exited symbol.
C2_RoundTrip ==
    (Reconciled /\ Exited \subseteq priced) =>
        \A s \in DOMAIN df_pf \cup DOMAIN df_buy :
            HeldQty(s) - OrderQty(df_sell_final, s) + OrderQty(df_buy_new, s)
                = TargetQty(s)

\* C3: full exit.  Every held symbol that is absent from the buy list and
\* has a close price on the as-of date is in the final SELL set with its
\* full held quantity.
C3_FullExit ==
    Completed("diff_stocks") =>
        \A s \in Exited \cap priced :
            <<s, Val(df_pf[s])>> \in Orders(df_sell_final)

\* C4: when an exited symbol has no close price on the as-of date, the
\* reconciliation fails (MissingPriceData): get_sell_data never completes
\* and the cycle does not carry on.
C4_MissingPriceRaises ==
    (Completed("get_buy_list") /\ ~(Exited \subseteq priced)) =>
        ~Completed("get_sell_data")

\* The orders of `frame` that were handed to the broker as `side`.
Submitted(side) ==
    {<<submitted[k].symbol, submitted[k].qty>> :
        k \in {j \in DOMAIN submitted : submitted[j].side = side}}

\* C5: executor fault isolation.  In a live cycle, once an order block is
\* over, every order of its batch has been submitted, also after a
\* submission of the batch failed.
C5_FaultIsolation ==
    ~DEBUG =>
        /\ Completed("sell_order") => Orders(df_sell_final) \subseteq Submitted("sell")
        /\ Completed("buy_order") => Orders(df_buy_new) \subseteq Submitted("buy")

\* C6: executor ordering.  Every SELL submission precedes every BUY
\* submission, and a BUY is submitted only once the sell block is over.
C6_SellBeforeBuy ==
    /\ \A j, k \in DOMAIN submitted :
          (submitted[j].side = "sell" /\ submitted[k].side = "buy") => j < k
    /\ (Submitted("buy") # {}) => Completed("sell_order")

\* C6 witness: a live cycle with both order sets non-empty has submitted a
\* SELL and a BUY.
C6_Witness ==
    /\ ~DEBUG
    /\ Len(df_sell_final.rows) > 0 /\ Len(df_buy_new.rows) > 0
    /\ Submitted("sell") # {} /\ Submitted("buy") # {}
    /\ pc = "done"

StatusStrings ==
    {MarketsClosed, TradingComplete, "ValueError: {0}", "Exception: {0}"}

\* C7: every invocation of main returns a status string.
C7_StatusString == (pc = "done") => status \in StatusStrings

\* trade() has not been entered: nothing loaded, fetched, submitted, logged.
TradeNotEntered ==
    /\ pc \in {"main", "check_open", "done"}
    /\ trace = <<>>
    /\ submitted = <<>>
    /\ logged = 0

\* C8 as stated: whenever the markets are closed, trade() is never entered
\* and the run returns "No trade: markets closed.", not an error.
C8_ClosedSkips ==
    ~is_open =>
        /\ TradeNotEntered
        /\ (pc = "done") => status = MarketsClosed

\* C8 amended: in a live (non-debug) run with the markets closed, trade()
\* is never entered, and once check_open() has returned the run is over
\* with "No trade: markets closed.".
C8_LiveClosedSkips ==
    (~DEBUG /\ ~is_open) =>
        /\ TradeNotEntered
        /\ (checked = "returned") => (pc = "done" /\ status = MarketsClosed)

\* C8 witness: a live run found the markets closed and returned.
C8_Witness ==
    /\ ~DEBUG /\ ~is_open /\ checked = "returned"
    /\ pc = "done" /\ status = MarketsClosed

\* C9: the BUY order set is exactly the buy-list symbols whose target qty
\* exceeds the held qty (0 when not held), each with the difference.
C9_BuySet ==
    Completed("get_buy_data") =>
        /\ Orders(df_buy_new) =
              {<<s, Val(df_buy[s] - HeldQty(s))>> :
                  s \in {t \in DOMAIN df_buy : df_buy[t] > HeldQty(t)}}
        /\ Len(df_buy_new.rows) = Cardinality(Orders(df_buy_new))

\* C9 witness: a buy list with a new symbol, an increased one and one that
\* is not increased.
C9_Witness ==
    /\ Completed("get_buy_data")
    /\ \E s \in DOMAIN df_buy : s \notin DOMAIN df_pf
    /\ \E s \in DOMAIN df_buy \cap DOMAIN df_pf : df_buy[s] > df_pf[s]
    /\ \E s \in DOMAIN df_buy \cap DOMAIN df_pf : df_buy[s] <= df_pf[s]

\* C10: every symbol held and in the buy list with a smaller target qty is
\* in the final SELL set, once, with qty held - target.
C10_ReducedSold ==
    Completed("diff_stocks") =>
        \A s \in DOMAIN df_pf \cap DOMAIN df_buy :
            df_buy[s] < df_pf[s] =>
                /\ <<s, Val(df_pf[s] - df_buy[s])>> \in Orders(df_sell_final)
                /\ Cardinality({k \in DOMAIN df_sell_final.rows :
                                  df_sell_final.rows[k].symbol = s}) = 1

\* C10 witness: a reduced symbol together with a priced full exit.
C10_Witness ==
    /\ Completed("diff_stocks")
    /\ \E s \in DOMAIN df_pf \cap DOMAIN df_buy : df_buy[s] < df_pf[s]
    /\ Exited \cap priced # {}
    /\ ~df_sell.none

\* C11: a symbol whose target qty equals its held qty is in neither order
\* set; a buy list equal to the holdings yields no SELL and no BUY order.
C11_UnchangedNoOrder ==
    Reconciled =>
        /\ \A s \in DOMAIN df_pf \cap DOMAIN df_buy :
              df_buy[s] = df_pf[s] =>
                  s \notin OrderSymbols(df_sell_final) \cup OrderSymbols(df_buy_new)
        /\ (df_buy = df_pf) =>
              (Orders(df_sell_final) = {} /\ Orders(df_buy_new) = {})

\* C11 witness: an unchanged symbol beside symbols that are ordered.
C11_Witness ==
    /\ Reconciled
    /\ \E s \in DOMAIN df_pf \cap DOMAIN df_buy : df_buy[s] = df_pf[s]
    /\ Orders(df_sell_final) # {}
    /\ Orders(df_buy_new) # {}

\* C12: every order of the final SELL set and of the BUY set, and every
\* order handed to the broker, has a strictly positive quantity.
C12_PositiveQty ==
    /\ Completed("diff_stocks") =>
          \A o \in Orders(df_sell_final) : o[2] # NaN /\ ValueOf(o[2]) > 0
    /\ Completed("get_buy_data") =>
          \A o \in Orders(df_buy_new) : o[2] # NaN /\ ValueOf(o[2]) > 0
    /\ \A k \in DOMAIN submitted :
          submitted[k].qty # NaN /\ ValueOf(submitted[k].qty) > 0

\* C12 witness: full exits merged with a reduction, and a buy, all
\* submitted in a live cycle.
C12_Witness ==
    /\ ~DEBUG /\ pc = "done" /\ Reconciled
    /\ ~df_sell.none
    /\ df_stock_diff_sale(df_pf, df_buy) # {}
    /\ Len(df_buy_new.rows) > 0
    /\ Len(submitted) = Len(df_sell_final.rows) + Len(df_buy_new.rows)

IsPrefix(p, q) == Len(p) <= Len(q) /\ \A k \in DOMAIN p : p[k] = q[k]

\* C14 as stated: positions are fetched only after scoring and selection,
\* and both order sets are computed before the first order is submitted.
C14_SpecPhaseOrder ==
    /\ Completed("list_positions") =>
          (Completed("prepare_df") /\ Completed("get_buy_list"))
    /\ (submitted # <<>>) => Reconciled

\* The order in which a cycle runs its phases.
PhaseOrder ==
    <<"get_hist_data", "list_positions", "get_account", "prepare_df",
      "get_buy_list", "get_sell_data", "diff_stocks", "sell_order",
      "get_buy_data", "buy_order", "log_positions">>

\* C14 amended: a cycle runs load history, fetch positions, fetch equity,
\* score, select, size the sells, submit the sells, size the buys, submit
\* the buys, log - each finished before the next begins, and all of them in
\* a successful cycle; a SELL is submitted only once the SELL set is
\* computed and a BUY only once the BUY set is.
C14_CodePhaseOrder ==
    /\ IsPrefix(trace, PhaseOrder)
    /\ (pc = "done" /\ status \in {TradingComplete, PyNone}
           /\ script = "tradingBot.py" /\ checked # "raised")
          => trace = PhaseOrder
    /\ (Submitted("sell") # {}) => Completed("diff_stocks")
    /\ (Submitted("buy") # {}) => Completed("get_buy_data")

\* C14 witness: a successful live cycle that submitted sells and buys.
C14_Witness ==
    /\ ~DEBUG /\ pc = "done" /\ status = TradingComplete
    /\ script = "tradingBot.py"
    /\ Submitted("sell") # {} /\ Submitted("buy") # {}

\* C15: the position log is written at most once, only after the sell and
\* the buy block are over (no submission follows it), and not at all in a
\* cycle that aborts before them.
C15_LogOnceAfterOrders ==
    /\ logged <= 1
    /\ (logged = 1) =>
          /\ Completed("sell_order") /\ Completed("buy_order")
          /\ pc = "done"
    /\ (pc = "done" /\ ~Completed("get_buy_list")) => logged = 0

\* C15 witness: a live cycle wrote the log after sells and buys went out.
C15_Witness ==
    /\ logged = 1
    /\ Submitted("buy") # {}
    /\ Submitted("sell") # {}

\* C16: submit_order is called at most once per (symbol, side).
C16_SubmitOnce ==
    \A j, k \in DOMAIN submitted :
        (submitted[j].symbol = submitted[k].symbol
            /\ submitted[j].side = submitted[k].side) => j = k

\* C16 witness: a live cycle over, with a failed submission, whose SELL set
\* merged a full exit with a reduction.
C16_Witness ==
    /\ ~DEBUG /\ pc = "done"
    /\ \E k \in DOMAIN submitted : ~submitted[k].ok
    /\ ~df_sell.none
    /\ df_stock_diff_sale(df_pf, df_buy) # {}
    /\ Len(submitted) >= 2

\* C18: every order of the final SELL set names a held symbol and sells at
\* most the quantity held.
C18_SellOnlyHeld ==
    Completed("diff_stocks") =>
        \A o \in Orders(df_sell_final) :
            o[1] \in DOMAIN df_pf /\ ValueOf(o[2]) <= df_pf[o[1]]

\* The symbols of get_buy_list's universe.
UniverseSet == {universe[k] : k \in DOMAIN universe}

\* The symbols with a momentum score on the date.
ScoredSymbols == {s \in DOMAIN momentum : momentum[s] # NaN}

\* C17: the universe has at most portfolio_size symbols, all of them
\* scored; it holds portfolio_size of them when that many are scored, and
\* all of them otherwise; no scored symbol left out scores strictly higher
\* than a selected one.
C17_TopScored ==
    (bl_pc = "universe") =>
        /\ Len(universe) <= portfolio_size
        /\ UniverseSet \subseteq ScoredSymbols
        /\ \/ Cardinality(UniverseSet) = portfolio_size
           \/ UniverseSet = ScoredSymbols
        /\ \A s \in UniverseSet, t \in ScoredSymbols \ UniverseSet :
              ValueOf(momentum[t]) <= ValueOf(momentum[s])

=============================================================================
